---- MODULE Spec2Model ----
(***************************************************************************)
(* Model of the Benekov FVE Home Assistant integration                     *)
(* (custom_components/benekov_fve): the socket HTTP client, the response   *)
(* parser, the poll coordinator built by the sensor platform, the config   *)
(* entry setup/unload hooks, the diagnostics dump and the get_wifi debug   *)
(* service.                                                                *)
(*                                                                         *)
(* Python values are tagged records:                                       *)
(*   None / JSON null   [t |-> "null"]                                     *)
(*   number             [t |-> "num",  lit   |-> its literal text]         *)
(*   string             [t |-> "str",  chars |-> sequence of characters]   *)
(*                      (a run of non-blank characters is one element)     *)
(*   list               [t |-> "list", items |-> sequence of values]       *)
(*   dict               [t |-> "dict", map   |-> function key -> value]    *)
(***************************************************************************)
EXTENDS Integers, Sequences, FiniteSets, TLC

PyNone == [t |-> "null"]
PyNum(l) == [t |-> "num", lit |-> l]
PyStr(cs) == [t |-> "str", chars |-> cs]
PyList(xs) == [t |-> "list", items |-> xs]
PyDict(f) == [t |-> "dict", map |-> f]

\* A string made of one run of non-blank characters.
Word(w) == PyStr(<<w>>)

EmptyMap == [k \in {} |-> PyNone]

\* isinstance(v, dict)
IsDict(v) == v.t = "dict"

\* Python truthiness of a value, as used by `info.get("error")`.
Truthy(v) ==
    CASE v.t = "null" -> FALSE
      [] v.t = "num"  -> v.lit \notin {"0", "0.0"}
      [] v.t = "str"  -> Len(v.chars) > 0
      [] v.t = "list" -> Len(v.items) > 0
      [] v.t = "dict" -> DOMAIN v.map # {}

\* dict.get(key, default)
DictGet(d, key, default) ==
    IF key \in DOMAIN d.map THEN d.map[key] ELSE default

Blank == {" ", "\t", "\n", "\r", "\f"}

RECURSIVE LStrip(_)
LStrip(cs) ==
    IF cs # <<>> /\ Head(cs) \in Blank THEN LStrip(Tail(cs)) ELSE cs

RECURSIVE RStrip(_)
RStrip(cs) ==
    IF cs # <<>> /\ cs[Len(cs)] \in Blank
    THEN RStrip(SubSeq(cs, 1, Len(cs) - 1))
    ELSE cs

\* str.strip()
Strip(s) == PyStr(RStrip(LStrip(s.chars)))

\* str(v) for the scalar values the payloads of this model carry.
Str(v) ==
    CASE v.t = "str"  -> v
      [] v.t = "num"  -> Word(v.lit)
      [] v.t = "null" -> Word("None")

(***************************************************************************)
(* BenekovFVEAPI._safe_get                                                 *)
(***************************************************************************)
RECURSIVE SafeGetLoop(_, _, _)
SafeGetLoop(d, keys, default) ==
    IF keys = <<>> THEN d
    ELSE IF IsDict(d) /\ Head(keys) \in DOMAIN d.map
         THEN SafeGetLoop(d.map[Head(keys)], Tail(keys), default)
         ELSE default

\* A lookup that gives None instead of the caller's default.
_safe_get_none(d, keys, default) == SafeGetLoop(d, keys, PyNone)

_safe_get(d, keys, default) == SafeGetLoop(d, keys, default)

(***************************************************************************)
(* Response bodies.  A body is text; json.loads either decodes it to a     *)
(* value or raises JSONDecodeError.  A text is represented by what it      *)
(* decodes to: Malformed(n) is the n-th text that is not JSON, Encoded(v)  *)
(* is the JSON text of the value v.                                        *)
(***************************************************************************)
Malformed(n) == [json |-> FALSE, id |-> n]
Encoded(v) == [json |-> TRUE, value |-> v]

json_loads(text) ==
    IF text.json THEN [ok |-> TRUE, value |-> text.value]
    ELSE [ok |-> FALSE, exc |-> "JSONDecodeError"]

\* The metric keys of a snapshot, in the order the output dict declares them.
OutputKeys ==
    {"user_name", "last_update", "time_of_day", "inverter_temp_c",
     "wifi_percent", "inverter_output_w", "total_consumption_w",
     "grid_power_w", "battery_power_w", "pv_power_w",
     "battery_soc_percent", "battery_voltage_v", "battery_current_a",
     "battery_temp_c", "daily_purchase_kwh", "daily_charge_kwh",
     "daily_discharge_kwh", "charger_2_status"}

NA == PyStr(<<"N/A">>)
Zero == PyNum("0")
ZeroF == PyNum("0.0")
UnknownUser == PyStr(<<"Unknown", " ", "User">>)
PlaceholderId == Word("unknown_benekov_system")
PlaceholderName == PyStr(<<"Benekov", " ", "FVE", " ", "System">>)

\* The flat output dictionary built from a decoded mapping.
BuildOutput(data) ==
    PyDict([k \in OutputKeys |->
        CASE k = "user_name" -> Strip(Str(DictGet(data, "jmeno", UnknownUser)))
          [] k = "last_update" -> DictGet(data, "posledniZaznam", NA)
          [] k = "time_of_day" -> DictGet(data, "castDne", NA)
          [] k = "inverter_temp_c" -> _safe_get(data, <<"teplotaStridace">>, ZeroF)
          [] k = "wifi_percent" -> DictGet(data, "wifiProc", Zero)
          [] k = "inverter_output_w" -> DictGet(data, "Inverter output total power", Zero)
          [] k = "total_consumption_w" -> DictGet(data, "spotrebaCelkem", Zero)
          [] k = "grid_power_w" -> DictGet(data, "vykonSit", Zero)
          [] k = "battery_power_w" -> DictGet(data, "vykonBat", Zero)
          [] k = "pv_power_w" -> DictGet(data, "vykonFV", Zero)
          [] k = "battery_soc_percent" -> _safe_get(data, <<"baterie", "soc">>, Zero)
          [] k = "battery_voltage_v" -> _safe_get(data, <<"baterie", "napeti">>, ZeroF)
          [] k = "battery_current_a" -> _safe_get(data, <<"baterie", "proud">>, ZeroF)
          [] k = "battery_temp_c" -> _safe_get(data, <<"baterie", "teplota">>, Zero)
          [] k = "daily_purchase_kwh" -> _safe_get(data, <<"statistika", "denni", "NakupEnergie">>, ZeroF)
          [] k = "daily_charge_kwh" -> _safe_get(data, <<"statistika", "denni", "NabitiBaterie">>, ZeroF)
          [] k = "daily_discharge_kwh" -> _safe_get(data, <<"statistika", "denni", "VybitiBaterie">>, ZeroF)
          [] k = "charger_2_status" -> _safe_get(data, <<"nabijecka", "nabijecka2", "stavKonektoru">>, NA)])

ErrorSnapshot(code) == PyDict([k \in {"error"} |-> Word(code)])

\* An INVALID_PAYLOAD snapshot that drops the decoded value.
InvalidPayload_bare(v) == PyDict([k \in {"error"} |-> Word("INVALID_PAYLOAD")])

InvalidPayload(v) ==
    PyDict([k \in {"error", "payload"} |->
        IF k = "error" THEN Word("INVALID_PAYLOAD") ELSE v])

ParseFailed(msg) ==
    PyDict([k \in {"error", "exception"} |->
        IF k = "error" THEN Word("PARSE_FAILED") ELSE Word(msg)])

\* Where an unexpected exception is raised inside the extraction block:
\* nowhere, while computing system_id, while computing system_name, or
\* while building the output dictionary.
FaultPoints == {"none", "system_id", "system_name", "output"}

\* The cached System Identity of a freshly constructed BenekovFVEAPI.
ApiInit == [system_id |-> PyNone, system_name |-> PlaceholderName]

(***************************************************************************)
(* BenekovFVEAPI._parse_energy_status: the value returned and the API      *)
(* object's identity fields after the call.                                *)
(***************************************************************************)
_parse_energy_status(api, json_str, fault) ==
    LET dec == json_loads(json_str) IN
    IF ~dec.ok
    THEN [result |-> ErrorSnapshot("JSON_DECODE_FAILED"), api |-> api]
    ELSE IF ~IsDict(dec.value)
    THEN [result |-> InvalidPayload(dec.value), api |-> api]
    ELSE LET data == dec.value
             id == DictGet(data, "uid", PlaceholderId)
             name == Strip(Str(DictGet(data, "jmeno", PlaceholderName)))
         IN CASE fault = "system_id" ->
                   [result |-> ParseFailed(fault), api |-> api]
              [] fault = "system_name" ->
                   [result |-> ParseFailed(fault),
                    api |-> [api EXCEPT !.system_id = id]]
              [] fault = "output" ->
                   [result |-> ParseFailed(fault),
                    api |-> [system_id |-> id, system_name |-> name]]
              [] fault = "none" ->
                   [result |-> BuildOutput(data),
                    api |-> [system_id |-> id, system_name |-> name]]

(***************************************************************************)
(* BenekovFVEAPI._http_post.  One HTTP exchange as the peer and the        *)
(* network make it:                                                        *)
(*   conn    "ok", or the exception the socket/TLS calls raise             *)
(*   sep     whether the raw response contains CRLF CRLF                   *)
(*   line    the status line: fewer than two parts, a second part that is  *)
(*           not an integer, or a status code                              *)
(*   hdr     whether every header line decodes                             *)
(*   body    the body text, after chunked decoding when the response       *)
(*           declares it                                                   *)
(***************************************************************************)
ShortLine == [kind |-> "short"]
NonIntLine == [kind |-> "nonint"]
CodeLine(n) == [kind |-> "code", code |-> n]

Returned(v) == [raised |-> FALSE, value |-> v]
Raised(e) == [raised |-> TRUE, exc |-> e]

\* A status check that lets redirects through.
StatusRejected_below400(status) == status < 200 \/ status >= 400

StatusRejected(status) == status < 200 \/ status >= 300

\* A client that returns the body whatever the status code is.
_http_post_lenient(resp) ==
    IF resp.conn # "ok" THEN Raised(resp.conn)
    ELSE IF ~resp.sep THEN Raised("ValueError")
    ELSE IF resp.line.kind = "short" THEN Raised("ValueError")
    ELSE IF resp.line.kind = "nonint" THEN Raised("ValueError")
    ELSE IF ~resp.hdr THEN Raised("ValueError")
    ELSE Returned(resp.body)

_http_post(resp) ==
    IF resp.conn # "ok" THEN Raised(resp.conn)
    ELSE IF ~resp.sep THEN Raised("ValueError")
    ELSE IF resp.line.kind = "short" THEN Raised("ValueError")
    ELSE IF resp.line.kind = "nonint" THEN Raised("ValueError")
    ELSE IF ~resp.hdr THEN Raised("ValueError")
    ELSE IF StatusRejected(resp.line.code) THEN Raised("ValueError")
    ELSE Returned(resp.body)

(***************************************************************************)
(* BenekovFVEAPI._decode_chunked.  Bytes are sequences of one-character    *)
(* strings; "xFF" stands for a byte outside ASCII.  Positions are 0-based  *)
(* as in the source.                                                       *)
(***************************************************************************)
NonAsciiBytes == {"xFF"}

\* A slice bound as Python normalises it: negative bounds count from the
\* end, and every bound is clamped to 0..len.
ClampIndex(n, len) ==
    IF n < 0 THEN (IF n + len < 0 THEN 0 ELSE n + len)
    ELSE IF n > len THEN len ELSE n

\* raw[a:b]
BytesSlice(raw, a, b) ==
    LET lo == ClampIndex(a, Len(raw))
        hi == ClampIndex(b, Len(raw))
    IN IF hi <= lo THEN <<>> ELSE SubSeq(raw, lo + 1, hi)

\* raw.find(b"\r\n", start)
BytesFindCRLF(raw, start) ==
    LET from == ClampIndex(start, Len(raw))
        hits == {k \in from..(Len(raw) - 2) :
                    raw[k + 1] = "\r" /\ raw[k + 2] = "\n"}
    IN IF hits = {} THEN -1
       ELSE CHOOSE k \in hits : \A j \in hits : k <= j

\* bytes.decode("ascii", errors="ignore")
DecodeAscii(bytes) == SelectSeq(bytes, LAMBDA b : b \notin NonAsciiBytes)

\* line.split(";", 1)[0]
RECURSIVE BeforeSemicolon(_)
BeforeSemicolon(cs) ==
    IF cs = <<>> \/ Head(cs) = ";" THEN <<>>
    ELSE <<Head(cs)>> \o BeforeSemicolon(Tail(cs))

HexDigits ==
    {"0", "1", "2", "3", "4", "5", "6", "7", "8", "9",
     "a", "b", "c", "d", "e", "f", "A", "B", "C", "D", "E", "F"}

HexDigitValue(c) ==
    CASE c = "0" -> 0 [] c = "1" -> 1 [] c = "2" -> 2 [] c = "3" -> 3
      [] c = "4" -> 4 [] c = "5" -> 5 [] c = "6" -> 6 [] c = "7" -> 7
      [] c = "8" -> 8 [] c = "9" -> 9
      [] c \in {"a", "A"} -> 10 [] c \in {"b", "B"} -> 11
      [] c \in {"c", "C"} -> 12 [] c \in {"d", "D"} -> 13
      [] c \in {"e", "E"} -> 14 [] c \in {"f", "F"} -> 15

RECURSIVE HexValue(_, _)
HexValue(digits, acc) ==
    IF digits = <<>> THEN acc
    ELSE HexValue(Tail(digits), 16 * acc + HexDigitValue(Head(digits)))

\* A size parser that reads the digits in base 10.
IntBase16_decimal(cs) ==
    LET s == RStrip(LStrip(cs))
        signed == s # <<>> /\ Head(s) \in {"+", "-"}
        digits == IF signed THEN Tail(s) ELSE s
        Dec(c) == CASE c = "0" -> 0 [] c = "1" -> 1 [] c = "2" -> 2
                    [] c = "3" -> 3 [] c = "4" -> 4 [] c = "5" -> 5
                    [] c = "6" -> 6 [] c = "7" -> 7 [] c = "8" -> 8
                    [] c = "9" -> 9
        RECURSIVE Val(_, _)
        Val(ds, acc) == IF ds = <<>> THEN acc
                        ELSE Val(Tail(ds), 10 * acc + Dec(Head(ds)))
    IN IF digits = <<>>
          \/ \E k \in 1..Len(digits) :
                digits[k] \notin {"0", "1", "2", "3", "4", "5", "6", "7", "8", "9"}
       THEN [ok |-> FALSE, value |-> 0]
       ELSE [ok |-> TRUE,
             value |-> IF signed /\ Head(s) = "-"
                       THEN 0 - Val(digits, 0) ELSE Val(digits, 0)]

\* int(text, 16) for text without underscores: blanks around the number are
\* ignored, then an optional sign, an optional 0x prefix and at least one
\* hexadecimal digit; anything else raises ValueError (ok = FALSE).
IntBase16(cs) ==
    LET s == RStrip(LStrip(cs))
        signed == s # <<>> /\ Head(s) \in {"+", "-"}
        unsigned == IF signed THEN Tail(s) ELSE s
        prefixed == /\ Len(unsigned) >= 2
                    /\ unsigned[1] = "0"
                    /\ unsigned[2] \in {"x", "X"}
        digits == IF prefixed THEN Tail(Tail(unsigned)) ELSE unsigned
    IN IF digits = <<>> \/ \E k \in 1..Len(digits) : digits[k] \notin HexDigits
       THEN [ok |-> FALSE, value |-> 0]
       ELSE [ok |-> TRUE,
             value |-> IF signed /\ Head(s) = "-"
                       THEN 0 - HexValue(digits, 0) ELSE HexValue(digits, 0)]

\* One evaluation of the loop condition and, when it holds, of the loop
\* body (lines 147-162), on the state st = [pc, body, raw, i, out].
DecodeIteration(st) ==
    IF ~(st.i < Len(st.raw)) THEN [st EXCEPT !.pc = "done"]
    ELSE LET nl == BytesFindCRLF(st.raw, st.i) IN
         IF nl = -1 THEN [st EXCEPT !.pc = "done"]
         ELSE LET line == RStrip(LStrip(DecodeAscii(BytesSlice(st.raw, st.i, nl))))
                  size == IntBase16(BeforeSemicolon(line))
              IN IF ~size.ok THEN [st EXCEPT !.pc = "done"]
                 ELSE IF size.value = 0
                 THEN [st EXCEPT !.pc = "done", !.i = nl + 2]
                 ELSE [st EXCEPT
                          !.out = @ \o BytesSlice(st.raw, nl + 2, nl + 2 + size.value),
                          !.i = nl + 2 + size.value + 2]

\* A get_data that returns an empty dict when the exchange fails.
get_data_swallow(api, resp, fault) ==
    LET post == _http_post(resp) IN
    IF post.raised
    THEN [out |-> Returned(PyDict(EmptyMap)), api |-> api]
    ELSE LET p == _parse_energy_status(api, post.value, fault)
         IN [out |-> Returned(p.result), api |-> p.api]

(***************************************************************************)
(* BenekovFVEAPI.get_data: the outcome (a returned dict or UpdateFailed)   *)
(* and the API object's identity afterwards.                               *)
(***************************************************************************)
get_data(api, resp, fault) ==
    LET post == _http_post(resp) IN
    IF post.raised
    THEN [out |-> Raised("UpdateFailed"), api |-> api]
    ELSE LET p == _parse_energy_status(api, post.value, fault)
         IN [out |-> Returned(p.result), api |-> p.api]


\* A dict that carries an "error" key (an Error Snapshot).
IsErrorSnapshot(v) == IsDict(v) /\ "error" \in DOMAIN v.map

(***************************************************************************)
(* Inputs of the lifecycle model.                                          *)
(***************************************************************************)
\* {"uid":"u1","jmeno":"Dum","wifiProc":80,"baterie":{"soc":55,"napeti":51.2}}
FullPayload ==
    PyDict([k \in {"uid", "jmeno", "wifiProc", "baterie"} |->
        CASE k = "uid" -> Word("u1")
          [] k = "jmeno" -> Word("Dum")
          [] k = "wifiProc" -> PyNum("80")
          [] k = "baterie" ->
               PyDict([j \in {"soc", "napeti"} |->
                   IF j = "soc" THEN PyNum("55") ELSE PyNum("51.2")])])

\* {"wifiProc":60}: a payload without uid and jmeno.
AnonPayload == PyDict([k \in {"wifiProc"} |-> PyNum("60")])

SmallTexts ==
    {Encoded(FullPayload), Encoded(AnonPayload), Malformed(1),
     Encoded(PyList(<<PyNum("1"), PyNum("2"), PyNum("3")>>))}

StatusCodes == {199, 200, 298, 299, 300, 404}

StatusLines == {ShortLine, NonIntLine} \cup {CodeLine(n) : n \in StatusCodes}

ConnOutcomes == {"ok", "OSError", "SSLError"}

Responses(texts) ==
    [conn : ConnOutcomes, sep : BOOLEAN, line : StatusLines,
     hdr : BOOLEAN, body : texts]

\* The entities the sensor platform creates, in list order.
Entities ==
    << [cls |-> "BenekovFVESensor", key |-> "total_consumption_w", state_attr_key |-> ""],
       [cls |-> "BenekovFVESensor", key |-> "pv_power_w", state_attr_key |-> ""],
       [cls |-> "BenekovFVESensor", key |-> "grid_power_w", state_attr_key |-> ""],
       [cls |-> "BenekovFVESensor", key |-> "battery_power_w", state_attr_key |-> ""],
       [cls |-> "BenekovFVESensor", key |-> "battery_soc_percent", state_attr_key |-> ""],
       [cls |-> "BenekovFVESensor", key |-> "battery_voltage_v", state_attr_key |-> ""],
       [cls |-> "BenekovFVESensor", key |-> "battery_current_a", state_attr_key |-> ""],
       [cls |-> "BenekovFVESensor", key |-> "battery_temp_c", state_attr_key |-> ""],
       [cls |-> "BenekovFVESensorBattery", key |-> "battery_temp_c", state_attr_key |-> ""],
       [cls |-> "BenekovFVESensor", key |-> "daily_purchase_kwh", state_attr_key |-> "last_update"],
       [cls |-> "BenekovFVESensor", key |-> "inverter_temp_c", state_attr_key |-> ""] >>

\* Bound on the one-off get_data calls of one kind running at once.
MaxOneOff == 1
\* Bound on the ticks of unloaded coordinators still running in the executor.
MaxOrphans == 1

VARIABLES
    entryState,      \* "not_loaded", "setting_up", "loaded", "retry"
    container,       \* hass.data[DOMAIN][entry_id]: present, and its keys
    lastSetup,       \* the latest finished async_setup_entry call
    api,             \* identity cached by the sensor platform's API object
    coordData,       \* coordinator.data
    lastUpdateSuccess, \* coordinator.last_update_success
    listeners,       \* coordinator listeners, in registration order
    timerScheduled,  \* the coordinator's refresh timer is armed
    tickInFlight,    \* the coordinator's update_method is running
    lastTick,        \* the latest finished tick: outcome and data before it
    notified,        \* listeners called by the latest finished tick, in order
    orphanTicks,     \* ticks of unloaded coordinators still running
    diagInFlight,    \* diagnostics fallback fetches running
    wifiInFlight,    \* get_wifi fallback fetches running
    lastDiag,        \* where the latest diagnostics dump read its values
    lastWifi,        \* how the latest get_wifi call ended
    fnCalled, fnResp, fnFault, fnBefore, fnApi, fnOut, \* one API call
    dc,              \* one run of _decode_chunked: input, position, output
    sg               \* one call of _safe_get: arguments and result

sysVars ==
    <<entryState, container, lastSetup, api, coordData, lastUpdateSuccess,
      listeners, timerScheduled, tickInFlight, lastTick, notified,
      orphanTicks, diagInFlight, wifiInFlight, lastDiag, lastWifi>>

fnVars == <<fnCalled, fnResp, fnFault, fnBefore, fnApi, fnOut>>

pureVars == <<dc, sg>>

vars == <<sysVars, fnVars, pureVars>>

NoContainer == [present |-> FALSE, keys |-> {}]
NoSetup == [done |-> FALSE]
NoTick == [kind |-> "none", before |-> PyNone]
NoDiag == "none"
NoWifi == "none"

NoResp ==
    [conn |-> "ok", sep |-> TRUE, line |-> CodeLine(200), hdr |-> TRUE,
     body |-> Malformed(0)]

SysInit ==
    /\ entryState = "not_loaded"
    /\ container = NoContainer
    /\ lastSetup = NoSetup
    /\ api = ApiInit
    /\ coordData = PyNone
    /\ lastUpdateSuccess = TRUE
    /\ listeners = <<>>
    /\ timerScheduled = FALSE
    /\ tickInFlight = FALSE
    /\ lastTick = NoTick
    /\ notified = <<>>
    /\ orphanTicks = 0
    /\ diagInFlight = 0
    /\ wifiInFlight = 0
    /\ lastDiag = NoDiag
    /\ lastWifi = NoWifi

FnIdle ==
    /\ fnCalled = FALSE
    /\ fnResp = NoResp
    /\ fnFault = "none"
    /\ fnBefore = ApiInit
    /\ fnApi = ApiInit
    /\ fnOut = Returned(PyNone)

NoDecode == [pc |-> "idle", body |-> <<>>, raw |-> <<>>, i |-> 0, out |-> <<>>]
NoLookup == [called |-> FALSE]

PureIdle ==
    /\ dc = NoDecode
    /\ sg = NoLookup

Init == SysInit /\ FnIdle /\ PureIdle


(***************************************************************************)
(* __init__.async_setup_entry                                              *)
(***************************************************************************)
\* A setup that only treats a raised get_data as not ready.
SetupNotReady_raisedOnly(out) == out.raised

\* Lines 41-51: the initial get_data raised, or returned a dict whose
\* "error" entry is truthy.
SetupNotReady(out) ==
    \/ out.raised
    \/ /\ IsDict(out.value)
       /\ Truthy(DictGet(out.value, "error", PyNone))

\* Lines 21-42: create the per-entry container, store the config, build an
\* API object and hand get_data to the executor.
SetupStart ==
    /\ entryState \in {"not_loaded", "retry"}
    /\ entryState' = "setting_up"
    /\ container' = [present |-> TRUE, keys |-> container.keys \cup {"config"}]
    /\ UNCHANGED <<lastSetup, api, coordData, lastUpdateSuccess, listeners,
                   timerScheduled, tickInFlight, lastTick, notified,
                   orphanTicks, diagInFlight, wifiInFlight, lastDiag, lastWifi>>
    /\ UNCHANGED <<fnVars, pureVars>>

\* sensor.async_setup_entry, reached through async_forward_entry_setups:
\* a new API object and coordinator, stored in the container; every entity
\* registers its listener when added, and the first listener arms the timer.
PlatformSetup ==
    /\ api' = ApiInit
    /\ coordData' = PyNone
    /\ lastUpdateSuccess' = TRUE
    /\ container' = [present |-> TRUE, keys |-> container.keys \cup {"coordinator"}]
    /\ listeners' = [i \in 1..Len(Entities) |-> i]
    /\ timerScheduled' = TRUE
    /\ tickInFlight' = FALSE
    /\ lastTick' = NoTick
    /\ notified' = <<>>

\* Lines 42-56: the initial fetch finished.
SetupDone(resp, fault) ==
    /\ entryState = "setting_up"
    /\ LET r == get_data(ApiInit, resp, fault) IN
       IF SetupNotReady(r.out)
       THEN /\ entryState' = "retry"
            /\ lastSetup' = [done |-> TRUE, out |-> r.out,
                             not_ready |-> TRUE, forwarded |-> FALSE]
            /\ UNCHANGED <<container, api, coordData, lastUpdateSuccess,
                           listeners, timerScheduled, tickInFlight, lastTick,
                           notified>>
       ELSE /\ entryState' = "loaded"
            /\ lastSetup' = [done |-> TRUE, out |-> r.out,
                             not_ready |-> FALSE, forwarded |-> TRUE]
            /\ PlatformSetup
    /\ UNCHANGED <<orphanTicks, diagInFlight, wifiInFlight, lastDiag, lastWifi>>
    /\ UNCHANGED <<fnVars, pureVars>>

(***************************************************************************)
(* __init__.async_unload_entry: the platform unload removes the entities,  *)
(* whose removal unregisters the listeners and with the last one the       *)
(* timer; the container is popped.  A tick already handed to the executor  *)
(* runs to its end on the discarded coordinator.                           *)
(***************************************************************************)
Unload ==
    /\ entryState = "loaded"
    /\ tickInFlight => orphanTicks < MaxOrphans
    /\ entryState' = "not_loaded"
    /\ container' = NoContainer
    /\ listeners' = <<>>
    /\ timerScheduled' = FALSE
    /\ tickInFlight' = FALSE
    /\ orphanTicks' = IF tickInFlight THEN orphanTicks + 1 ELSE orphanTicks
    /\ api' = ApiInit
    /\ coordData' = PyNone
    /\ lastUpdateSuccess' = TRUE
    /\ lastTick' = NoTick
    /\ notified' = <<>>
    /\ UNCHANGED <<lastSetup, diagInFlight, wifiInFlight, lastDiag, lastWifi>>
    /\ UNCHANGED <<fnVars, pureVars>>

OrphanDone ==
    /\ orphanTicks > 0
    /\ orphanTicks' = orphanTicks - 1
    /\ UNCHANGED <<entryState, container, lastSetup, api, coordData,
                   lastUpdateSuccess, listeners, timerScheduled, tickInFlight,
                   lastTick, notified, diagInFlight, wifiInFlight, lastDiag,
                   lastWifi>>
    /\ UNCHANGED <<fnVars, pureVars>>

(***************************************************************************)
(* The poll coordinator: DataUpdateCoordinator(update_method =             *)
(* _async_update_data, update_interval = scan_interval).                   *)
(***************************************************************************)
\* coordinator.data after a refresh whose update_method ended with `out`.
DataAfterTick(data, out) == IF out.raised THEN data ELSE out.value

\* A refresh that re-arms the timer only after a successful update.
Reschedule_onSuccess(ls, out) == ls # <<>> /\ ~out.raised

\* The refresh timer is re-armed after every refresh while listeners exist.
Reschedule(ls, out) == ls # <<>>

\* The listeners a refresh calls: none when this refresh and the previous
\* one both failed, otherwise all of them, in registration order.
ListenersToNotify(ls, previous_success, success) ==
    IF ~success /\ ~previous_success THEN <<>> ELSE ls

\* What a tick was: its HTTP exchange failed, or get_data gave an Error
\* Snapshot, or a snapshot.
TickKind(resp, out) ==
    IF _http_post(resp).raised \/ out.raised THEN "transport"
    ELSE IF IsErrorSnapshot(out.value) THEN "error_snapshot"
    ELSE "success"

\* The timer fires: the refresh starts and _async_update_data hands
\* api.get_data to the executor.
TimerFire ==
    /\ timerScheduled
    /\ ~tickInFlight
    /\ timerScheduled' = FALSE
    /\ tickInFlight' = TRUE
    /\ UNCHANGED <<entryState, container, lastSetup, api, coordData,
                   lastUpdateSuccess, listeners, lastTick, notified,
                   orphanTicks, diagInFlight, wifiInFlight, lastDiag, lastWifi>>
    /\ UNCHANGED <<fnVars, pureVars>>

\* get_data finished: the refresh stores or rejects the result, re-arms the
\* timer and calls the listeners.
TickDone(resp, fault) ==
    /\ tickInFlight
    /\ LET r == get_data(api, resp, fault) IN
       /\ api' = r.api
       /\ coordData' = DataAfterTick(coordData, r.out)
       /\ lastUpdateSuccess' = ~r.out.raised
       /\ timerScheduled' = Reschedule(listeners, r.out)
       /\ notified' = ListenersToNotify(listeners, lastUpdateSuccess, ~r.out.raised)
       /\ lastTick' = [kind |-> TickKind(resp, r.out), before |-> coordData]
    /\ tickInFlight' = FALSE
    /\ UNCHANGED <<entryState, container, lastSetup, listeners, orphanTicks,
                   diagInFlight, wifiInFlight, lastDiag, lastWifi>>
    /\ UNCHANGED <<fnVars, pureVars>>

(***************************************************************************)
(* diagnostics.async_get_config_entry_diagnostics                          *)
(***************************************************************************)
\* The coordinator stored in the container holds data.
HasPolledData == "coordinator" \in container.keys /\ coordData # PyNone

DiagStart ==
    IF HasPolledData
    THEN /\ lastDiag' = "coordinator"
         /\ lastDiag' # lastDiag
         /\ UNCHANGED <<entryState, container, lastSetup, api, coordData,
                        lastUpdateSuccess, listeners, timerScheduled,
                        tickInFlight, lastTick, notified, orphanTicks,
                        diagInFlight, wifiInFlight, lastWifi>>
         /\ UNCHANGED <<fnVars, pureVars>>
    ELSE /\ diagInFlight < MaxOneOff
         /\ diagInFlight' = diagInFlight + 1
         /\ UNCHANGED <<entryState, container, lastSetup, api, coordData,
                        lastUpdateSuccess, listeners, timerScheduled,
                        tickInFlight, lastTick, notified, orphanTicks,
                        wifiInFlight, lastDiag, lastWifi>>
         /\ UNCHANGED <<fnVars, pureVars>>

\* The fallback get_data finished; its values or its exception end in the
\* returned dump.
DiagDone ==
    /\ diagInFlight > 0
    /\ diagInFlight' = diagInFlight - 1
    /\ lastDiag' = "fallback"
    /\ UNCHANGED <<entryState, container, lastSetup, api, coordData,
                   lastUpdateSuccess, listeners, timerScheduled, tickInFlight,
                   lastTick, notified, orphanTicks, wifiInFlight, lastWifi>>
    /\ UNCHANGED <<fnVars, pureVars>>

(***************************************************************************)
(* __init__._handle_get_wifi.  The call names this entry, another entry,   *)
(* or no entry at all.                                                     *)
(***************************************************************************)
CallEntryIds == {"", "entry", "other"}

\* Lines 80-91: the entry id the handler works on, "" when it gives up.
ResolveEntry(given) ==
    LET picked == IF given = "" /\ container.present THEN "entry" ELSE given
    IN IF picked = "entry" /\ container.present THEN "entry" ELSE ""

WifiStart(given) ==
    IF ResolveEntry(given) = ""
    THEN /\ lastWifi' = "unknown_entry"
         /\ lastWifi' # lastWifi
         /\ UNCHANGED <<entryState, container, lastSetup, api, coordData,
                        lastUpdateSuccess, listeners, timerScheduled,
                        tickInFlight, lastTick, notified, orphanTicks,
                        diagInFlight, wifiInFlight, lastDiag>>
         /\ UNCHANGED <<fnVars, pureVars>>
    ELSE IF HasPolledData
    THEN /\ lastWifi' = "coordinator"
         /\ lastWifi' # lastWifi
         /\ UNCHANGED <<entryState, container, lastSetup, api, coordData,
                        lastUpdateSuccess, listeners, timerScheduled,
                        tickInFlight, lastTick, notified, orphanTicks,
                        diagInFlight, wifiInFlight, lastDiag>>
         /\ UNCHANGED <<fnVars, pureVars>>
    ELSE /\ wifiInFlight < MaxOneOff
         /\ wifiInFlight' = wifiInFlight + 1
         /\ UNCHANGED <<entryState, container, lastSetup, api, coordData,
                        lastUpdateSuccess, listeners, timerScheduled,
                        tickInFlight, lastTick, notified, orphanTicks,
                        diagInFlight, lastDiag, lastWifi>>
         /\ UNCHANGED <<fnVars, pureVars>>

\* The fallback get_data finished; the event is fired with its value, or
\* with None after an exception.
WifiDone ==
    /\ wifiInFlight > 0
    /\ wifiInFlight' = wifiInFlight - 1
    /\ lastWifi' = "fallback"
    /\ UNCHANGED <<entryState, container, lastSetup, api, coordData,
                   lastUpdateSuccess, listeners, timerScheduled, tickInFlight,
                   lastTick, notified, orphanTicks, diagInFlight, lastDiag>>
    /\ UNCHANGED <<fnVars, pureVars>>

\* get_data calls running in the executor for the configured endpoint.
InFlight ==
    (IF entryState = "setting_up" THEN 1 ELSE 0)
    + (IF tickInFlight THEN 1 ELSE 0)
    + orphanTicks + diagInFlight + wifiInFlight

\* The exchanges of the lifecycle model: one per way _http_post fails, and
\* an accepted response for every body.
OkResponse(text) ==
    [conn |-> "ok", sep |-> TRUE, line |-> CodeLine(200), hdr |-> TRUE,
     body |-> text]

FailedResponses ==
    {[OkResponse(Malformed(1)) EXCEPT !.conn = "OSError"],
     [OkResponse(Malformed(1)) EXCEPT !.conn = "SSLError"],
     [OkResponse(Encoded(FullPayload)) EXCEPT !.sep = FALSE],
     [OkResponse(Encoded(FullPayload)) EXCEPT !.line = ShortLine],
     [OkResponse(Encoded(FullPayload)) EXCEPT !.line = NonIntLine],
     [OkResponse(Encoded(FullPayload)) EXCEPT !.hdr = FALSE],
     [OkResponse(Encoded(FullPayload)) EXCEPT !.line = CodeLine(404)]}

\* The extraction faults of the lifecycle model.
MainFaults == {"none", "output"}

MainResponses == FailedResponses \cup {OkResponse(t) : t \in SmallTexts}

Next ==
    \/ SetupStart
    \/ \E resp \in MainResponses, fault \in MainFaults : SetupDone(resp, fault)
    \/ Unload
    \/ OrphanDone
    \/ TimerFire
    \/ \E resp \in MainResponses, fault \in MainFaults : TickDone(resp, fault)
    \/ DiagStart
    \/ DiagDone
    \/ \E given \in CallEntryIds : WifiStart(given)
    \/ WifiDone

Spec == Init /\ [][Next]_vars

TypeOK == InFlight >= 0


(***************************************************************************)
(* The properties the host reads from entity number e of the platform's    *)
(* entity list.  coordinator.data is None until a refresh has succeeded,   *)
(* and None has no get.                                                    *)
(***************************************************************************)
CoordinatorGet(key) ==
    IF IsDict(coordData) THEN Returned(DictGet(coordData, key, PyNone))
    ELSE Raised("AttributeError")

\* BenekovFVESensor.state
state(e) == CoordinatorGet(Entities[e].key)

\* BenekovFVESensor.extra_state_attributes
extra_state_attributes(e) ==
    LET attr == Entities[e].state_attr_key
        Base == [k \in {"Charger 2 Status", "Time of Day"} |->
                    IF k = "Charger 2 Status"
                    THEN CoordinatorGet("charger_2_status").value
                    ELSE CoordinatorGet("time_of_day").value]
    IN IF ~IsDict(coordData) THEN Raised("AttributeError")
       ELSE IF attr # "" /\ Truthy(CoordinatorGet(attr).value)
       THEN Returned(PyDict([k \in {"Last Update Time"} \cup DOMAIN Base |->
                                IF k = "Last Update Time"
                                THEN CoordinatorGet(attr).value
                                ELSE Base[k]]))
       ELSE Returned(PyDict(Base))

\* unique_id of BenekovFVESensor and of BenekovFVESensorBattery: the text
\* "benekov_fve_", the system id as str() prints it, "_" and the key.
unique_id(e) ==
    <<"benekov_fve_">> \o Str(api.system_id).chars \o <<"_", Entities[e].key>>

(***************************************************************************)
(* Single calls of the API object's methods.                               *)
(***************************************************************************)
\* The recognized top-level scalar fields and the value each carries when
\* the payload has it.
ScalarKeys ==
    {"uid", "jmeno", "posledniZaznam", "castDne", "teplotaStridace",
     "wifiProc", "Inverter output total power", "spotrebaCelkem", "vykonSit",
     "vykonBat", "vykonFV"}

ScalarValue(k) ==
    CASE k = "uid" -> Word("u1")
      [] k = "jmeno" -> PyStr(<<" ", "Dum", " ">>)
      [] k = "posledniZaznam" -> PyStr(<<"2024-01-01", " ", "12:00">>)
      [] k = "castDne" -> Word("den")
      [] k = "teplotaStridace" -> PyNum("41.5")
      [] k = "wifiProc" -> PyNum("80")
      [] k = "Inverter output total power" -> PyNum("1200")
      [] k = "spotrebaCelkem" -> PyNum("900")
      [] k = "vykonSit" -> PyNum("-300")
      [] k = "vykonBat" -> PyNum("150")
      [] k = "vykonFV" -> PyNum("1500")

\* Marks a nested group the payload does not have.
Absent == [t |-> "absent"]

BatteryVariants ==
    {Absent,
     PyNum("7"),
     PyDict([k \in {"soc"} |-> PyNum("55")]),
     PyDict([k \in {"soc", "napeti", "proud", "teplota"} |->
         CASE k = "soc" -> PyNum("55")
           [] k = "napeti" -> PyNum("51.2")
           [] k = "proud" -> PyNum("-3.1")
           [] k = "teplota" -> PyNum("21")])}

StatisticsVariants ==
    {Absent,
     PyDict([k \in {"denni"} |-> PyNone]),
     PyDict([k \in {"denni"} |-> PyDict([j \in {"NakupEnergie"} |-> PyNum("1.5")])]),
     PyDict([k \in {"denni"} |->
         PyDict([j \in {"NakupEnergie", "NabitiBaterie", "VybitiBaterie"} |->
             CASE j = "NakupEnergie" -> PyNum("1.5")
               [] j = "NabitiBaterie" -> PyNum("2.5")
               [] j = "VybitiBaterie" -> PyNum("0.7")])])}

ChargerVariants ==
    {Absent,
     PyList(<<>>),
     PyDict([k \in {"nabijecka2"} |->
         PyDict([j \in {"stavKonektoru"} |-> Word("connected")])])}

\* The JSON object with the scalar fields S and the given nested groups.
MkPayload(S, bat, stat, chg) ==
    LET groups == {g \in {"baterie", "statistika", "nabijecka"} :
                      CASE g = "baterie" -> bat # Absent
                        [] g = "statistika" -> stat # Absent
                        [] g = "nabijecka" -> chg # Absent}
    IN PyDict([k \in S \cup groups |->
           CASE k = "baterie" -> bat
             [] k = "statistika" -> stat
             [] k = "nabijecka" -> chg
             [] OTHER -> ScalarValue(k)])

ObjectPayloads ==
    {MkPayload(S, b, st, c) :
        S \in SUBSET ScalarKeys, b \in BatteryVariants,
        st \in StatisticsVariants, c \in ChargerVariants}

\* Decoded values that are not mappings.
NonMappingValues ==
    {PyNone, PyNum("42"), Word("text"), PyList(<<>>),
     PyList(<<PyNum("1"), PyNum("2"), PyNum("3")>>)}

MalformedTexts == {Malformed(1), Malformed(2)}

ParseTexts ==
    {Encoded(v) : v \in ObjectPayloads \cup NonMappingValues}
    \cup MalformedTexts

\* _parse_energy_status on one text: every text without a fault, and the
\* texts of the lifecycle model with every fault.
InitParse ==
    /\ SysInit
    /\ PureIdle
    /\ fnCalled = FALSE
    /\ fnBefore = ApiInit
    /\ fnApi = ApiInit
    /\ fnOut = Returned(PyNone)
    /\ \/ fnFault = "none" /\ fnResp \in {OkResponse(t) : t \in ParseTexts}
       \/ fnFault \in FaultPoints \ {"none"}
          /\ fnResp \in {OkResponse(t) : t \in SmallTexts}

ParseCall ==
    /\ ~fnCalled
    /\ fnCalled' = TRUE
    /\ fnBefore' = fnApi
    /\ LET p == _parse_energy_status(fnApi, fnResp.body, fnFault) IN
       /\ fnOut' = Returned(p.result)
       /\ fnApi' = p.api
    /\ UNCHANGED <<fnResp, fnFault>>
    /\ UNCHANGED <<sysVars, pureVars>>

NextParse == ParseCall

SpecParse == InitParse /\ [][NextParse]_vars

\* get_data on one exchange.
InitFetch ==
    /\ SysInit
    /\ PureIdle
    /\ fnCalled = FALSE
    /\ fnBefore = ApiInit
    /\ fnApi = ApiInit
    /\ fnOut = Returned(PyNone)
    /\ fnFault \in FaultPoints
    /\ fnResp \in Responses(SmallTexts)

GetDataCall ==
    /\ ~fnCalled
    /\ fnCalled' = TRUE
    /\ fnBefore' = fnApi
    /\ LET r == get_data(fnApi, fnResp, fnFault) IN
       /\ fnOut' = r.out
       /\ fnApi' = r.api
    /\ UNCHANGED <<fnResp, fnFault>>
    /\ UNCHANGED <<sysVars, pureVars>>

NextFetch == GetDataCall

SpecFetch == InitFetch /\ [][NextFetch]_vars

\* _http_post on one exchange.
InitPost ==
    /\ SysInit
    /\ PureIdle
    /\ fnCalled = FALSE
    /\ fnBefore = ApiInit
    /\ fnApi = ApiInit
    /\ fnOut = Returned(PyNone)
    /\ fnFault = "none"
    /\ fnResp \in Responses(SmallTexts)

HttpPostCall ==
    /\ ~fnCalled
    /\ fnCalled' = TRUE
    /\ fnOut' = _http_post(fnResp)
    /\ UNCHANGED <<fnResp, fnFault, fnBefore, fnApi>>
    /\ UNCHANGED <<sysVars, pureVars>>

NextPost == HttpPostCall

SpecPost == InitPost /\ [][NextPost]_vars

\* Successive parses on one API object.
\* {"uid":"u1"} and {"jmeno":" Dum "}: payloads with one identity field.
IdentityTexts ==
    SmallTexts
    \cup {Encoded(MkPayload({"uid"}, Absent, Absent, Absent)),
          Encoded(MkPayload({"jmeno"}, Absent, Absent, Absent)),
          Encoded(MkPayload({"uid", "jmeno", "wifiProc"}, Absent, Absent, Absent))}

ParseAgain(text, fault) ==
    /\ fnCalled' = TRUE
    /\ fnResp' = OkResponse(text)
    /\ fnFault' = fault
    /\ fnBefore' = fnApi
    /\ LET p == _parse_energy_status(fnApi, text, fault) IN
       /\ fnOut' = Returned(p.result)
       /\ fnApi' = p.api
    /\ UNCHANGED <<sysVars, pureVars>>

NextIdentity == \E text \in IdentityTexts, fault \in FaultPoints : ParseAgain(text, fault)

SpecIdentity == Init /\ [][NextIdentity]_vars


(***************************************************************************)
(* _decode_chunked on well-formed chunked bodies.                          *)
(***************************************************************************)
MaxBody == 3
MaxChunks == 3

BytesUpTo(alphabet, n) == UNION {[1..k -> alphabet] : k \in 0..n}

BodyAlphabet == {"a", "0", "\r", "\n", "xFF"}

\* Bodies long enough for sizes that read differently in base 16 and 10.
LongLengths == {10, 17}
LongBody(n) == [k \in 1..n |-> <<"a", "\r", "\n", "0", "xFF">>[(k % 5) + 1]]

Bodies == BytesUpTo(BodyAlphabet, MaxBody) \cup {LongBody(n) : n \in LongLengths}

RECURSIVE ToHex(_)
ToHex(n) ==
    LET digit == <<"0", "1", "2", "3", "4", "5", "6", "7", "8", "9",
                   "a", "b", "c", "d", "e", "f">>[(n % 16) + 1]
    IN IF n < 16 THEN <<digit>> ELSE ToHex(n \div 16) \o <<digit>>

CRLF == <<"\r", "\n">>

\* The non-empty pieces of body cut at the positions in cuts.
RECURSIVE SplitAt(_, _, _)
SplitAt(body, cuts, start) ==
    LET later == {c \in cuts : c > start} IN
    IF later = {} THEN <<SubSeq(body, start + 1, Len(body))>>
    ELSE LET c == CHOOSE x \in later : \A y \in later : x <= y
         IN <<SubSeq(body, start + 1, c)>> \o SplitAt(body, cuts, c)

Splits(body) ==
    IF body = <<>> THEN {<<>>}
    ELSE {SplitAt(body, cuts, 0) :
            cuts \in {cs \in SUBSET (1..(Len(body) - 1)) : Cardinality(cs) < MaxChunks}}

\* The chunked transfer encoding of the chunks: each as its size in
\* hexadecimal, CRLF, the data, CRLF; then the zero-size chunk.
RECURSIVE EncodeChunks(_)
EncodeChunks(chunks) ==
    IF chunks = <<>> THEN <<"0">> \o CRLF \o CRLF
    ELSE ToHex(Len(Head(chunks))) \o CRLF \o Head(chunks) \o CRLF
            \o EncodeChunks(Tail(chunks))

DecodeStart(body, raw) ==
    [pc |-> "loop", body |-> body, raw |-> raw, i |-> 0, out |-> <<>>]

InitRoundTrip ==
    /\ SysInit
    /\ FnIdle
    /\ sg = NoLookup
    /\ \E body \in Bodies : \E chunks \in Splits(body) :
          dc = DecodeStart(body, EncodeChunks(chunks))

DecodeStep ==
    /\ dc.pc = "loop"
    /\ dc' = DecodeIteration(dc)
    /\ UNCHANGED <<sysVars, fnVars, sg>>

NextDecode == DecodeStep

SpecRoundTrip == InitRoundTrip /\ [][NextDecode]_vars

(***************************************************************************)
(* _decode_chunked on arbitrary bytes.                                     *)
(***************************************************************************)
MaxRaw == 5

RawAlphabet == {"-", "6", "0", "\r", "\n", "z"}

InitDecode ==
    /\ SysInit
    /\ FnIdle
    /\ sg = NoLookup
    /\ \E raw \in BytesUpTo(RawAlphabet, MaxRaw) : dc = DecodeStart(<<>>, raw)

SpecDecode == InitDecode /\ [][NextDecode]_vars

(***************************************************************************)
(* _safe_get on arbitrary nested values.  The keys argument is a Python    *)
(* value: None, a string (one key), a list of hashable keys, or something  *)
(* that cannot be iterated.                                                *)
(***************************************************************************)
MaxPath == 3

\* A lookup that gives back the deepest value it reached.
SafeGetCallResult_partial(d, keys, default) ==
    LET RECURSIVE Walk(_, _)
        Walk(v, ks) ==
            IF ks = <<>> THEN v
            ELSE IF IsDict(v) /\ Head(ks) \in DOMAIN v.map
                 THEN Walk(v.map[Head(ks)], Tail(ks))
                 ELSE v
    IN CASE keys.t = "null" -> Returned(default)
         [] keys.t = "str"  -> Returned(Walk(d, <<Head(keys.chars)>>))
         [] keys.t = "list" -> Returned(Walk(d, keys.items))
         [] OTHER           -> Returned(default)

\* The whole of _safe_get.  A string given as keys is one word, and the
\* word is the key.
SafeGetCallResult(d, keys, default) ==
    CASE keys.t = "null" -> Returned(default)
      [] keys.t = "str"  -> Returned(_safe_get(d, <<Head(keys.chars)>>, default))
      [] keys.t = "list" -> Returned(_safe_get(d, keys.items, default))
      [] OTHER           -> Returned(default)

LookupKeys == {"a", "b"}

LookupLeaves == {PyNone, PyNum("1"), PyList(<<>>)}

DictsOver(values) ==
    {PyDict(f) : f \in UNION {[S -> values] : S \in SUBSET LookupKeys}}

\* Values nested two mappings deep.
LookupValues ==
    LookupLeaves \cup DictsOver(LookupLeaves \cup DictsOver(LookupLeaves))

LookupPaths ==
    {PyList(p) : p \in BytesUpTo(LookupKeys, MaxPath)}
        \cup {PyNone, Word("a"), PyNum("7")}

LookupDefaults == {PyNone, Word("dflt")}

InitSafeGet ==
    /\ SysInit
    /\ FnIdle
    /\ dc = NoDecode
    /\ \E d \in LookupValues, keys \in LookupPaths, default \in LookupDefaults :
          sg = [called |-> FALSE, d |-> d, keys |-> keys, default |-> default,
                out |-> Returned(PyNone)]

SafeGetCall ==
    /\ ~sg.called
    /\ sg' = [sg EXCEPT !.called = TRUE,
                        !.out = SafeGetCallResult(sg.d, sg.keys, sg.default)]
    /\ UNCHANGED <<sysVars, fnVars, dc>>

NextSafeGet == SafeGetCall

SpecSafeGet == InitSafeGet /\ [][NextSafeGet]_vars

\* The timer fires when armed.  Nothing is assumed about a refresh handed
\* to the executor: _decode_chunked may keep it running for ever.
FairSpec ==
    /\ Spec
    /\ WF_vars(TimerFire)

(***************************************************************************)
(* Claims                                                                  *)
(***************************************************************************)

\* C1: a tick whose fetch succeeds but whose parse result is an Error
\* Snapshot leaves the coordinator's snapshot as it was before the tick, and
\* the coordinator's current snapshot is never an Error Snapshot.
C1_ErrorSnapshotIsFailedTick ==
    /\ lastTick.kind = "error_snapshot" => coordData = lastTick.before
    /\ ~IsErrorSnapshot(coordData)

\* C2: a tick whose fetch fails at the transport level (get_data raises
\* UpdateFailed) leaves the coordinator's snapshot equal to the snapshot
\* before the tick.
C2_TransportFailureKeepsSnapshot ==
    lastTick.kind = "transport" => coordData = lastTick.before

\* A transport failure right after a tick that stored a snapshot.
C2_Witness ==
    /\ lastTick.kind = "transport"
    /\ lastTick.before # PyNone
    /\ coordData = lastTick.before

\* C3: after any failed tick (transport failure or Error Snapshot), while
\* the entry is still loaded, a later tick is eventually attempted.
C3_FailedTickKeepsPolling ==
    (/\ lastTick.kind \in {"transport", "error_snapshot"}
     /\ entryState = "loaded"
     /\ ~tickInFlight)
    ~> (tickInFlight \/ entryState # "loaded")

\* A tick running after two transport failures in a row (the second one
\* called no listener).
C3_Witness ==
    /\ lastTick.kind = "transport"
    /\ ~lastUpdateSuccess
    /\ notified = <<>>
    /\ tickInFlight
    /\ entryState = "loaded"

\* C4: the listeners are called exactly on successful ticks: all of them,
\* once each, in registration order after a tick that stored a genuine
\* snapshot, and none after a tick that failed by transport error or
\* produced an Error Snapshot.
C4_NotifiedExactlyOnSuccess ==
    lastTick.kind # "none" =>
        notified = IF lastTick.kind = "success" THEN listeners ELSE <<>>

\* The fetches the coordinator's ticks, the diagnostics dump and the
\* get_wifi service have running.
PollsInFlight ==
    (IF tickInFlight THEN 1 ELSE 0) + orphanTicks + diagInFlight + wifiInFlight

\* C5: at most one fetch is in flight for the configured endpoint, over
\* every interleaving of timer ticks, diagnostics dumps and get_wifi calls.
C5_SingleFlight == PollsInFlight <= 1

\* C6: once a parse has set the identity from a payload carrying uid/name,
\* a later parse of a payload lacking uid leaves system_id as cached, and
\* one lacking jmeno leaves system_name as cached.
C6_IdentityRetained ==
    (/\ fnCalled
     /\ fnResp.body.json
     /\ IsDict(fnResp.body.value))
    => /\ (/\ "uid" \notin DOMAIN fnResp.body.value.map
           /\ fnBefore.system_id \notin {PyNone, Word("unknown_benekov_system")})
          => fnApi.system_id = fnBefore.system_id
       /\ (/\ "jmeno" \notin DOMAIN fnResp.body.value.map
           /\ fnBefore.system_name # PyStr(<<"Benekov", " ", "FVE", " ", "System">>))
          => fnApi.system_name = fnBefore.system_name

\* C7: when the initial get_data raised or returned an Error Snapshot,
\* async_setup_entry raised ConfigEntryNotReady and did not forward the
\* sensor platform; the platform is forwarded only after get_data returned a
\* snapshot without error.
C7_ForwardOnlyAfterVerifiedFetch ==
    /\ lastSetup.done =>
          LET bad == \/ lastSetup.out.raised
                     \/ "error" \in DOMAIN lastSetup.out.value.map
          IN /\ bad => lastSetup.not_ready /\ ~lastSetup.forwarded
             /\ lastSetup.forwarded => ~bad
             /\ ~bad => lastSetup.forwarded
    /\ entryState = "retry" =>
          /\ "coordinator" \notin container.keys
          /\ listeners = <<>>
          /\ ~timerScheduled

\* A setup attempt rejected because get_data returned an Error Snapshot.
C7_Witness ==
    /\ entryState = "retry"
    /\ lastSetup.done
    /\ ~lastSetup.out.raised
    /\ lastSetup.not_ready

\* The declared source path and default of every metric key.
DeclaredPath(k) ==
    CASE k = "user_name" -> <<"jmeno">>
      [] k = "last_update" -> <<"posledniZaznam">>
      [] k = "time_of_day" -> <<"castDne">>
      [] k = "inverter_temp_c" -> <<"teplotaStridace">>
      [] k = "wifi_percent" -> <<"wifiProc">>
      [] k = "inverter_output_w" -> <<"Inverter output total power">>
      [] k = "total_consumption_w" -> <<"spotrebaCelkem">>
      [] k = "grid_power_w" -> <<"vykonSit">>
      [] k = "battery_power_w" -> <<"vykonBat">>
      [] k = "pv_power_w" -> <<"vykonFV">>
      [] k = "battery_soc_percent" -> <<"baterie", "soc">>
      [] k = "battery_voltage_v" -> <<"baterie", "napeti">>
      [] k = "battery_current_a" -> <<"baterie", "proud">>
      [] k = "battery_temp_c" -> <<"baterie", "teplota">>
      [] k = "daily_purchase_kwh" -> <<"statistika", "denni", "NakupEnergie">>
      [] k = "daily_charge_kwh" -> <<"statistika", "denni", "NabitiBaterie">>
      [] k = "daily_discharge_kwh" -> <<"statistika", "denni", "VybitiBaterie">>
      [] k = "charger_2_status" -> <<"nabijecka", "nabijecka2", "stavKonektoru">>

DeclaredDefault(k) ==
    CASE k = "user_name" -> PyStr(<<"Unknown", " ", "User">>)
      [] k \in {"last_update", "time_of_day", "charger_2_status"} -> PyStr(<<"N/A">>)
      [] k \in {"inverter_temp_c", "battery_voltage_v", "battery_current_a",
                "daily_purchase_kwh", "daily_charge_kwh",
                "daily_discharge_kwh"} -> PyNum("0.0")
      [] OTHER -> PyNum("0")

DeclaredKeys ==
    {"user_name", "last_update", "time_of_day", "inverter_temp_c",
     "wifi_percent", "inverter_output_w", "total_consumption_w",
     "grid_power_w", "battery_power_w", "pv_power_w", "battery_soc_percent",
     "battery_voltage_v", "battery_current_a", "battery_temp_c",
     "daily_purchase_kwh", "daily_charge_kwh", "daily_discharge_kwh",
     "charger_2_status"}

\* The payload has a value at the end of the path.
RECURSIVE HasPath(_, _)
HasPath(v, path) ==
    \/ path = <<>>
    \/ /\ v.t = "dict"
       /\ Head(path) \in DOMAIN v.map
       /\ HasPath(v.map[Head(path)], Tail(path))

\* C8: for every JSON object given to parse, the returned snapshot has
\* exactly the declared metric keys, and every key whose source field is
\* absent (or lies under a group that is absent or not a mapping) holds its
\* declared default.
C8_FullKeySet ==
    (/\ fnCalled
     /\ fnFault = "none"
     /\ fnResp.body.json
     /\ fnResp.body.value.t = "dict")
    => /\ ~fnOut.raised
       /\ DOMAIN fnOut.value.map = DeclaredKeys
       /\ \A k \in DeclaredKeys :
             ~HasPath(fnResp.body.value, DeclaredPath(k))
                 => fnOut.value.map[k] = DeclaredDefault(k)

\* A parsed object whose battery group is not a mapping and that lacks
\* every other recognized field.
C8_Witness ==
    /\ fnCalled
    /\ fnFault = "none"
    /\ fnResp.body = Encoded(MkPayload({}, PyNum("7"), Absent, Absent))
    /\ fnOut.value.map["battery_soc_percent"] = PyNum("0")

ExchangeFailed(resp) ==
    \/ resp.conn # "ok"
    \/ ~resp.sep
    \/ resp.line.kind \in {"short", "nonint"}
    \/ ~resp.hdr
    \/ resp.line.kind = "code" /\ (resp.line.code < 200 \/ resp.line.code > 299)

OnlyStatusDecides(resp) ==
    /\ resp.conn = "ok"
    /\ resp.sep
    /\ resp.hdr
    /\ resp.line.kind = "code"

\* C11 as stated: the client returns the body only for a status code in
\* [200,299), and raises for every code outside that range.
C11_Original ==
    (fnCalled /\ OnlyStatusDecides(fnResp)) =>
        (~(200 <= fnResp.line.code /\ fnResp.line.code < 299) => fnOut.raised)

\* C11 (amended): the client returns the body exactly for the status codes
\* 200..299, 299 included, and raises for every code below 200 or above 299.
C11_StatusRange ==
    (fnCalled /\ OnlyStatusDecides(fnResp)) =>
        IF 200 <= fnResp.line.code /\ fnResp.line.code <= 299
        THEN fnOut = [raised |-> FALSE, value |-> fnResp.body]
        ELSE fnOut.raised

\* The client returned the body of a response with status 299.
C11_Witness ==
    /\ fnCalled
    /\ OnlyStatusDecides(fnResp)
    /\ fnResp.line.code = 299
    /\ ~fnOut.raised

\* C12: decoding the chunked encoding of a body, however the body is cut
\* into chunks, yields exactly the body.
C12_RoundTrip ==
    dc.pc = "done" => dc.out = dc.body

\* A body of 17 bytes containing CR and LF, sent in three chunks, has been
\* decoded.
C12_Witness ==
    /\ dc.pc = "done"
    /\ dc.body = LongBody(17)
    /\ dc.out = dc.body
    /\ \E chunks \in Splits(dc.body) :
          /\ Len(chunks) = 3
          /\ dc.raw = EncodeChunks(chunks)

\* C13: the decoder terminates on every input: whenever an iteration is
\* followed by another one, the read position has strictly advanced.
C13_PositionAdvances ==
    [][(dc.pc = "loop" /\ dc'.pc = "loop") => dc'.i > dc.i]_vars

\* The value at the end of a path that the nested value has.
RECURSIVE ValueAt(_, _)
ValueAt(v, path) ==
    IF path = <<>> THEN v ELSE ValueAt(v.map[Head(path)], Tail(path))

\* The path a keys argument denotes: a list is the path of its items, a
\* string is a path of one key.
PathOf(keys) == IF keys.t = "str" THEN <<Head(keys.chars)>> ELSE keys.items

\* C14: for every nested value, path of keys and default, _safe_get returns
\* the value at the end of the path when every step is a mapping holding
\* the next key, returns the default otherwise (also when the keys are None
\* or cannot be iterated), and never raises.
C14_SafeGet ==
    sg.called =>
        /\ ~sg.out.raised
        /\ sg.out.value = IF /\ sg.keys.t \in {"list", "str"}
                             /\ HasPath(sg.d, PathOf(sg.keys))
                          THEN ValueAt(sg.d, PathOf(sg.keys))
                          ELSE sg.default

\* A lookup came back with the default because the second step of a
\* three-key path met a value that is not a mapping, although the first
\* key was there.
C14_Witness ==
    /\ sg.called
    /\ sg.keys = PyList(<<"a", "b", "a">>)
    /\ sg.default = Word("dflt")
    /\ HasPath(sg.d, <<"a">>)
    /\ ~HasPath(sg.d, <<"a", "b">>)
    /\ sg.d.map["a"] = PyNum("1")
    /\ sg.out = Returned(Word("dflt"))

\* C15: from the moment the entities are added to the host, reading any
\* entity's state or extra_state_attributes returns a value.
C15_ReadsReturn ==
    entryState = "loaded" =>
        \A e \in 1..Len(Entities) :
            ~state(e).raised /\ ~extra_state_attributes(e).raised

\* C16: the entities of a set-up entry have pairwise distinct unique_ids.
C16_DistinctUniqueIds ==
    entryState = "loaded" =>
        \A e, f \in 1..Len(Entities) : e # f => unique_id(e) # unique_id(f)

\* C17: while the entry stays set up, no step changes the unique_id of any
\* of its entities.
C17_UniqueIdStable ==
    [][(entryState = "loaded" /\ entryState' = "loaded") =>
          \A e \in 1..Len(Entities) : unique_id(e)' = unique_id(e)]_vars

\* C18: an entry whose setup raised ConfigEntryNotReady, or which has been
\* unloaded, has no container in the registry.
C18_ContainerOnlyWhileSetUp ==
    entryState \in {"retry", "not_loaded"} => ~container.present

====
